---- MODULE Spec2Model ----
(***************************************************************************)
(* ungx: converts a gx (hash addressed) vendor tree into canonical import  *)
(* paths.  Two program variants are modelled:                              *)
(*   mode = "simple"  src/main.go          (vendor only)                   *)
(*   mode = "embed"   src/unnamed/part_000 (vendor + embed + --fork)       *)
(*                                                                         *)
(* Text (file contents, import paths, map keys) is a sequence of tokens.   *)
(* A token is one character, or an atom standing for a fixed run of        *)
(* characters that no other string of the model overlaps ("gx/ipfs/", the  *)
(* marker opener "// import ", a hash name, a host name).  Path segments   *)
(* that matter for prefix matching ("b" against "be") are spelled out in   *)
(* characters.  A filesystem path is a sequence of segments, each segment  *)
(* a token sequence.                                                       *)
(***************************************************************************)
EXTENDS Integers, Sequences, FiniteSets, TLC

\* ------------------------------------------------------------------ bounds
\* Number of hash directories `gx install` may create in a pipeline run.
NumPkgs == 3
\* Number of hash directories behind a RewriteMap of the rewriter runs.
NumRwPkgs == 2
\* Number of snippets a source file of the rewriter runs is made of.
MaxSnips == 1

\* ------------------------------------------------------------------ tokens
Q       == "\""
SL      == "/"
NL      == "\n"
IMPORTC == "// import "
GX      == "gx/ipfs/"
GITHUB  == "github.com"

HashNames == <<"QmA", "QmB", "QmC", "QmD", "QmE">>
Tok(h) == HashNames[h]

\* The single directory gx creates below a hash directory (dirs[0].Name()).
DirName == <<"d">>

\* Canonical import paths (gx.dvcsimport).
GHB  == <<GITHUB, SL, "b">>
GHBC == <<GITHUB, SL, "b", SL, "c">>
GHBE == <<GITHUB, SL, "b", "e">>
GOD  == <<"golang.org", SL, "d">>

\* The canonical paths of the pipeline runs (a path nested under another, a
\* path off GitHub) and of the rewriter runs (a nested path, and a path that
\* shares a string prefix with another).
CanonicalPaths == {GHB, GHBC, GOD}
RwPaths        == {GHB, GHBC, GHBE}

\* ------------------------------------------------------------------ text
HasPrefix(s, p) == Len(s) >= Len(p) /\ SubSeq(s, 1, Len(p)) = p

\* bytes.Replace(s, old, new, -1) for a non-empty old: the non-overlapping
\* matches, left to right.
RECURSIVE Replace(_, _, _)
Replace(s, old, new) ==
    IF Len(s) < Len(old) THEN s
    ELSE IF SubSeq(s, 1, Len(old)) = old
         THEN new \o Replace(SubSeq(s, Len(old) + 1, Len(s)), old, new)
         ELSE <<s[1]>> \o Replace(Tail(s), old, new)

\* End of the line that position i of s is on (the position of its "\n", or
\* Len(s) + 1).
RECURSIVE LineEnd(_, _)
LineEnd(s, i) ==
    IF i > Len(s) \/ s[i] = NL THEN i ELSE LineEnd(s, i + 1)

\* restrict.ReplaceAll(s, []byte{}) for restrict = `// import ".*"`:
\* leftmost match, `.*` greedy and never crossing a newline, so a match runs
\* from the opener to the last quote of its line.
RECURSIVE StripMarkers(_)
StripMarkers(s) ==
    IF Len(s) = 0 THEN s
    ELSE LET e      == LineEnd(s, 1)
             closes == {j \in 3..(e - 1) : s[j] = Q}
             last   == CHOOSE j \in closes : \A k \in closes : k <= j
         IN  IF Len(s) >= 3 /\ s[1] = IMPORTC /\ s[2] = Q /\ closes # {}
             THEN StripMarkers(SubSeq(s, last + 1, Len(s)))
             ELSE <<s[1]>> \o StripMarkers(Tail(s))

\* strings.Split(path, "/") as filepath.Join sees it: the non-empty segments.
RECURSIVE SplitAcc(_, _)
SplitAcc(s, cur) ==
    IF Len(s) = 0 THEN (IF cur = <<>> THEN <<>> ELSE <<cur>>)
    ELSE IF s[1] = SL
         THEN (IF cur = <<>> THEN <<>> ELSE <<cur>>) \o SplitAcc(Tail(s), <<>>)
         ELSE SplitAcc(Tail(s), Append(cur, s[1]))

Segs(path) == SplitAcc(path, <<>>)

\* filepath.Dir, in segments: "." (no segment) for a path of one segment
\* or none.
DirOf(p) == IF Len(p) <= 1 THEN <<>> ELSE SubSeq(p, 1, Len(p) - 1)

\* map[k] = v
Put(m, k, v) == [x \in (DOMAIN m) \cup {k} |-> IF x = k THEN v ELSE m[x]]

EmptyMap == [x \in {} |-> <<>>]

\* ------------------------------------------------------------ filesystem
\* The working tree: the set of paths that exist.  A path whose last segment
\* is a file name is a file, any other a directory.
PKGJSON   == <<"package.json">>
CodeOf(h) == <<"code", Tok(h)>>

VENDOR == << <<"vendor">> >>
GXPKGS == << <<"vendor">>, <<"gx">>, <<"ipfs">> >>
GXLIBS == << <<"gxlibs">> >>

HashDir(h) == Append(GXPKGS, <<Tok(h)>>)

IsFile(p) ==
    /\ Len(p) > 0
    /\ \/ p[Len(p)] = PKGJSON
       \/ (Len(p[Len(p)]) = 2 /\ p[Len(p)][1] = "code")

Prefixes(p) == {SubSeq(p, 1, i) : i \in 1..Len(p)}
Under(fsys, p) == {q \in fsys : HasPrefix(q, p)}
Children(fsys, p) == {q \in fsys : Len(q) = Len(p) + 1 /\ HasPrefix(q, p)}

\* os.MkdirAll: fails when a component exists and is not a directory.
MkdirAllOK(fsys, p) == \A q \in Prefixes(p) : ~(q \in fsys /\ IsFile(q))
MkdirAll(fsys, p) == fsys \cup Prefixes(p)

\* ioutil.ReadDir
ReadDirOK(fsys, p) == p \in fsys /\ ~IsFile(p)

\* os.Rename of a directory: fails when the source is missing, when the
\* destination exists (a directory gives EEXIST, a file ENOTDIR) or when the
\* destination's parent is missing.
RenameOK(fsys, old, new) ==
    /\ old \in fsys
    /\ new \notin fsys
    /\ ~HasPrefix(new, old)
    /\ (Len(new) <= 1 \/ (DirOf(new) \in fsys /\ ~IsFile(DirOf(new))))
Rename(fsys, old, new) ==
    (fsys \ Under(fsys, old))
        \cup {new \o SubSeq(q, Len(old) + 1, Len(q)) : q \in Under(fsys, old)}

\* os.Remove of a directory: it must exist and be empty.
RemoveOK(fsys, p) == p \in fsys /\ Children(fsys, p) = {}
Remove(fsys, p) == fsys \ {p}

\* --------------------------------------------------------------- state
VARIABLES
    mode,       \* "simple" (src/main.go) or "embed" (src/unnamed/part_000)
    root,       \* output of `go list`, trimmed (embed)
    fork,       \* the --fork flag, <<>> when not given (embed)
    pc,         \* position of main: install, manifest, relocate, walk, keys, done, failed
    err,        \* the fatal error, "" while none
    envFault,   \* the fatal error came from the environment (installer, disk)
    pkgs,       \* what gx install put on disk: hash -> [man, path]
    fs,         \* the working tree
    unread,     \* hashes the manifest loop has still to read, in ReadDir order
    versions,   \* versions: canonical path -> count
    mappings,   \* mappings: hash -> canonical path
    pending,    \* hashes the relocation loop has still to visit
    placed,     \* hash -> "vendor" | "embed" | "clash" | "skip", per visited hash
    rewrite,    \* rewrite: retired reference -> replacement
    disk,       \* content of the source file on disk
    orig,       \* content of the source file before the first walk
    oldblob,    \* oldblob of the walk callback
    newblob,    \* newblob of the walk callback
    todo,       \* keys of rewrite the callback's range loop has still to visit
    passes,     \* completed walks over the file
    probeIn,    \* arguments and environment of a shouldEmbed call
    probeOut    \* its result: "none" before the call, "embed" or "vendor"

vars == <<mode, root, fork, pc, err, envFault, pkgs, fs, unread, versions,
          mappings, pending, placed, rewrite, disk, orig, oldblob, newblob,
          todo, passes, probeIn, probeOut>>

\* ------------------------------------------------------------ shouldEmbed
StatusOK == 200

\* What the environment answers to one shouldEmbed call: httpErr, http.Get
\* returned an error; status, the response's StatusCode otherwise; getOK,
\* `go get -d` exited with 0; statErr, os.Stat of the package.json in the
\* temporary workspace returned an error.
HttpStatuses == {200, 204, 404, 500}
ProbeEnvs == [httpErr : BOOLEAN, status : HttpStatuses, getOK : BOOLEAN,
              statErr : BOOLEAN]

\* Mutant of shouldEmbed: a transport failure of the GitHub probe vendors.
shouldEmbedFailOpen(path, env) ==
    IF HasPrefix(path, <<GITHUB, SL>>)
    THEN IF env.httpErr THEN FALSE ELSE env.status = StatusOK
    ELSE IF env.getOK /\ env.statErr THEN FALSE ELSE TRUE

shouldEmbed(path, env) ==
    IF HasPrefix(path, <<GITHUB, SL>>)
    THEN IF env.httpErr THEN TRUE ELSE env.status = StatusOK
    ELSE IF env.getOK /\ env.statErr THEN FALSE ELSE TRUE

\* ------------------------------------------------------------- relocation
Failed(fsys, rw, byEnv) == [fs |-> fsys, rw |-> rw, ok |-> FALSE, env |-> byEnv]
Moved(fsys, rw)         == [fs |-> fsys, rw |-> rw, ok |-> TRUE, env |-> FALSE]

\* Where the disk may fail during one iteration of the relocation loop.
FaultPoints == {"none", "mkdir", "list", "rename", "remove"}

\* The value a vendored, an embedded and a clashing package is rewritten to.
VendorRef(path)       == path
EmbedRef(rootv, path) == rootv \o <<SL, "gxlibs", SL>> \o path
ClashRef(rootv, h)    == rootv \o <<SL, "gxlibs", SL, "ipfs", SL, Tok(h)>>

\* "gx/ipfs/"+hash+"/"+dir.Name() and "gx/ipfs/"+hash
HashKey(h, name) == <<GX, Tok(h), SL>> \o name
ClashKey(h)      == <<GX, Tok(h)>>

\* The entries one renamed directory adds to rewrite.  extra holds the bare
\* canonical path when it is entered too (embedding).
Entries(rw, h, name, val, extra) ==
    LET rw1 == Put(rw, HashKey(h, name), val)
    IN  IF extra = {} THEN rw1 ELSE Put(rw1, CHOOSE k \in extra : TRUE, val)

\* for _, dir := range dirs { os.Rename(...); rewrite[...] = ... }: every
\* directory of the hash directory is renamed to the same destination.  gx
\* puts one directory below a hash directory, so the order of the range is
\* moot.
RECURSIVE MoveDirs(_, _, _, _, _, _, _, _)
MoveDirs(fsys, rw, kids, h, dst, val, extra, fault) ==
    IF kids = {} THEN Moved(fsys, rw)
    ELSE LET dir == CHOOSE d \in kids : TRUE
             rw2 == Entries(rw, h, dir[Len(dir)], val, extra)
         IN  IF fault = "rename" THEN Failed(fsys, rw, TRUE)
             ELSE IF ~RenameOK(fsys, dir, dst) THEN Failed(fsys, rw, FALSE)
             ELSE MoveDirs(Rename(fsys, dir, dst), rw2, kids \ {dir}, h, dst,
                           val, extra, fault)

\* One non-clashing package: MkdirAll of the destination's parent, ReadDir of
\* the hash directory, the renames, os.Remove of the hash directory.
RelocateInto(fsys, rw, h, path, base, val, extra, fault) ==
    LET parent == base \o DirOf(Segs(path))
        dst    == base \o Segs(path)
        fs1    == MkdirAll(fsys, parent)
        m      == MoveDirs(fs1, rw, Children(fs1, HashDir(h)), h, dst, val,
                           extra, fault)
    IN  IF fault = "mkdir" THEN Failed(fsys, rw, TRUE)
        ELSE IF ~MkdirAllOK(fsys, parent) THEN Failed(fsys, rw, FALSE)
        ELSE IF fault = "list" THEN Failed(fs1, rw, TRUE)
        ELSE IF ~ReadDirOK(fs1, HashDir(h)) THEN Failed(fs1, rw, FALSE)
        ELSE IF ~m.ok THEN m
        ELSE IF fault = "remove" THEN Failed(m.fs, m.rw, TRUE)
        ELSE IF ~RemoveOK(m.fs, HashDir(h)) THEN Failed(m.fs, m.rw, FALSE)
        ELSE Moved(Remove(m.fs, HashDir(h)), m.rw)

\* A clashing package in the embedding variant: the whole hash directory is
\* renamed to gxlibs/ipfs/<hash>.
EmbedClash(fsys, rw, h, rootv, fault) ==
    LET parent == Append(GXLIBS, <<"ipfs">>)
        dst    == Append(parent, <<Tok(h)>>)
        fs1    == MkdirAll(fsys, parent)
    IN  IF fault = "mkdir" THEN Failed(fsys, rw, TRUE)
        ELSE IF ~MkdirAllOK(fsys, parent) THEN Failed(fsys, rw, FALSE)
        ELSE IF fault = "rename" THEN Failed(fs1, rw, TRUE)
        ELSE IF ~RenameOK(fs1, HashDir(h), dst) THEN Failed(fs1, rw, FALSE)
        ELSE Moved(Rename(fs1, HashDir(h), dst),
                   Put(rw, ClashKey(h), ClashRef(rootv, h)))

\* Mutant of Placement: the simple variant does not skip a clashing package.
PlacementNoSkip(md, count, path, env) ==
    IF count > 1 /\ md = "embed" THEN "clash"
    ELSE IF md = "embed" /\ shouldEmbed(path, env) THEN "embed"
    ELSE "vendor"

\* The placement of one hash: "skip" and "clash" for a clashing package,
\* "embed" or "vendor" otherwise.
Placement(md, count, path, env) ==
    IF count > 1 THEN (IF md = "embed" THEN "clash" ELSE "skip")
    ELSE IF md = "embed" /\ shouldEmbed(path, env) THEN "embed"
    ELSE "vendor"

\* The body of the relocation loop for one hash.
RelocateOne(md, fsys, rw, h, path, rootv, place, fault) ==
    CASE place = "skip"   -> Moved(fsys, rw)
      [] place = "clash"  -> EmbedClash(fsys, rw, h, rootv, fault)
      [] place = "embed"  -> RelocateInto(fsys, rw, h, path, GXLIBS,
                                          EmbedRef(rootv, path), {path}, fault)
      [] place = "vendor" -> RelocateInto(fsys, rw, h, path, VENDOR,
                                          VendorRef(path), {}, fault)

\* --------------------------------------------------------------- rewriter
\* One iteration of `for gxpath, gopath := range rewrite`.
ApplyKey(md, blob, k, v) ==
    IF md = "embed" THEN Replace(blob, <<Q>> \o k, <<Q>> \o v)
    ELSE Replace(blob, k, v)

\* if *fork != "" { two bytes.Replace }
ForkSubst(blob, rootv, forkv) ==
    IF forkv = <<>> THEN blob
    ELSE Replace(Replace(blob, <<Q>> \o rootv \o <<SL>>, <<Q>> \o forkv \o <<SL>>),
                 <<Q>> \o rootv \o <<Q>>, <<Q>> \o forkv \o <<Q>>)

\* What follows the range loop in the callback, up to the comparison.
Finish(md, blob, rootv, forkv) ==
    IF md = "embed" THEN StripMarkers(ForkSubst(blob, rootv, forkv)) ELSE blob

\* ------------------------------------------------------- the run: inputs
\* A package as gx installs it: the state of its manifest and, for a manifest
\* that declares one, its canonical path.
\*   ok          gx.dvcsimport is declared
\*   nofield     package.json parses and has no gx.dvcsimport
\*   unparsable  package.json is not JSON
\*   nofile      the package directory holds no package.json
\*   nodir       the hash directory holds no directory
BadManifests == {"nofield", "unparsable", "nofile", "nodir"}
PkgOptions ==
    [man : {"ok"}, path : CanonicalPaths]
        \cup {[man |-> m, path |-> <<>>] : m \in BadManifests}

Quoted(ref) == <<Q>> \o ref \o <<Q>>

\* What `gx install --local` creates for hash h.
InstalledPkg(h, p) ==
    LET hd == HashDir(h)
        d  == Append(hd, DirName)
    IN  {hd}
          \cup (IF p.man = "nodir" THEN {} ELSE {d, Append(d, CodeOf(h))})
          \cup (IF p.man \in {"nodir", "nofile"} THEN {} ELSE {Append(d, PKGJSON)})

Installed(f) ==
    Prefixes(GXPKGS) \cup UNION {InstalledPkg(h, f[h]) : h \in DOMAIN f}

\* The project's source file: a package clause with an import comment, and
\* one import of every gx dependency.
RECURSIVE ImportLines(_, _)
ImportLines(f, h) ==
    IF h > Len(f) THEN <<>>
    ELSE Quoted(HashKey(h, DirName)) \o <<NL>> \o ImportLines(f, h + 1)

SourceFor(f, rootv) == <<IMPORTC>> \o Quoted(rootv) \o <<NL>> \o ImportLines(f, 1)

NoProbe == [path |-> <<>>, httpErr |-> FALSE, status |-> StatusOK,
            getOK |-> FALSE, statErr |-> FALSE]

Init ==
    /\ mode \in {"simple", "embed"}
    /\ root = <<"r">>
    /\ fork \in (IF mode = "embed" THEN {<<>>, <<"f">>} ELSE {<<>>})
    /\ pkgs \in UNION {[1..k -> PkgOptions] : k \in 1..NumPkgs}
    /\ pc = "install"
    /\ err = ""
    /\ envFault = FALSE
    /\ fs = {}
    /\ unread = <<>>
    /\ versions = EmptyMap
    /\ mappings = EmptyMap
    /\ pending = {}
    /\ placed = EmptyMap
    /\ rewrite = EmptyMap
    /\ disk = SourceFor(pkgs, root)
    /\ orig = disk
    /\ oldblob = <<>>
    /\ newblob = <<>>
    /\ todo = {}
    /\ passes = 0
    /\ probeIn = NoProbe
    /\ probeOut = "none"

\* ------------------------------------------------------ the run: actions
Fatal(kind, byEnv) ==
    /\ pc' = "failed"
    /\ err' = kind
    /\ envFault' = byEnv

\* deps.Run() succeeds and ioutil.ReadDir(gxpkgs) lists the hash directories.
Install ==
    /\ pc = "install"
    /\ fs' = Installed(pkgs)
    /\ unread' = [i \in 1..Len(pkgs) |-> i]
    /\ pc' = "manifest"
    /\ UNCHANGED <<mode, root, fork, err, envFault, pkgs, versions, mappings,
                   pending, placed, rewrite, disk, orig, oldblob, newblob,
                   todo, passes, probeIn, probeOut>>

\* deps.Run() returns an error.
InstallFail ==
    /\ pc = "install"
    /\ Fatal("InstallerFailure", TRUE)
    /\ UNCHANGED <<mode, root, fork, pkgs, fs, unread, versions, mappings,
                   pending, placed, rewrite, disk, orig, oldblob, newblob,
                   todo, passes, probeIn, probeOut>>

Count(v, path) == IF path \in DOMAIN v THEN v[path] ELSE 0

\* What one iteration of the manifest loop does with hash h: "panic" (dirs[0]
\* of an empty listing), "missing" (ReadFile fails), "malformed" (Unmarshal
\* fails) or "ok" with the pkg.Gx.Path it read.
ManifestOf(fsys, h, p) ==
    LET dirs == Children(fsys, HashDir(h))
        d    == CHOOSE x \in dirs : TRUE
    IN  IF ~ReadDirOK(fsys, HashDir(h)) THEN [res |-> "list", path |-> <<>>]
        ELSE IF dirs = {} THEN [res |-> "panic", path |-> <<>>]
        ELSE IF Append(d, PKGJSON) \notin fsys THEN [res |-> "missing", path |-> <<>>]
        ELSE IF p.man = "unparsable" THEN [res |-> "malformed", path |-> <<>>]
        ELSE [res |-> "ok", path |-> IF p.man = "ok" THEN p.path ELSE <<>>]

\* Mutant of ManifestLoopDone: the relocation loop starts after the first
\* manifest.
ManifestLoopDoneEarly(rest) == TRUE

\* `for _, hash := range hashes` ends when no hash is left.
ManifestLoopDone(rest) == rest = <<>>

\* One iteration of `for _, hash := range hashes`; after the last one the
\* relocation loop starts over the keys of mappings.
ReadManifest ==
    /\ pc = "manifest"
    /\ unread # <<>>
    /\ LET h == Head(unread)
           m == ManifestOf(fs, h, pkgs[h])
       IN  IF m.res = "ok"
           THEN /\ mappings' = Put(mappings, h, m.path)
                /\ versions' = Put(versions, m.path, Count(versions, m.path) + 1)
                /\ unread' = Tail(unread)
                /\ pc' = IF ManifestLoopDone(Tail(unread)) THEN "relocate"
                         ELSE "manifest"
                /\ pending' = IF ManifestLoopDone(Tail(unread))
                              THEN DOMAIN mappings' ELSE pending
                /\ UNCHANGED <<err, envFault>>
           ELSE /\ Fatal(CASE m.res = "panic"     -> "Panic"
                           [] m.res = "missing"   -> "ManifestMissing"
                           [] m.res = "malformed" -> "ManifestMalformed"
                           [] OTHER               -> "ListError", FALSE)
                /\ UNCHANGED <<mappings, versions, unread, pending>>
    /\ UNCHANGED <<mode, root, fork, pkgs, fs, placed, rewrite, disk, orig,
                   oldblob, newblob, todo, passes, probeIn, probeOut>>

\* One iteration of `for hash, path := range mappings`, the range visiting
\* the hashes in any order; after the last one the walk starts.
Relocate ==
    /\ pc = "relocate"
    /\ \E h \in pending, fault \in FaultPoints :
       \E place \in {Placement(mode, versions[mappings[h]], mappings[h], env) :
                         env \in ProbeEnvs} :
         LET path  == mappings[h]
             r     == RelocateOne(mode, fs, rewrite, h, path, root, place, fault)
         IN  /\ fs' = r.fs
             /\ rewrite' = r.rw
             /\ IF r.ok
                THEN /\ pending' = pending \ {h}
                     /\ placed' = Put(placed, h, place)
                     /\ pc' = IF pending' = {} THEN "walk" ELSE "relocate"
                     /\ UNCHANGED <<err, envFault>>
                ELSE /\ Fatal("RelocationIOError", r.env)
                     /\ UNCHANGED <<pending, placed>>
    /\ UNCHANGED <<mode, root, fork, pkgs, unread, versions, mappings, disk,
                   orig, oldblob, newblob, todo, passes, probeIn, probeOut>>

\* The walk callback reaches the source file: ioutil.ReadFile.
ReadFile ==
    /\ pc = "walk"
    /\ \E fault \in BOOLEAN :
         IF fault
         THEN /\ Fatal("RewriteIOError", TRUE)
              /\ UNCHANGED <<oldblob, newblob, todo>>
         ELSE /\ oldblob' = disk
              /\ newblob' = disk
              /\ todo' = DOMAIN rewrite
              /\ pc' = "keys"
              /\ UNCHANGED <<err, envFault>>
    /\ UNCHANGED <<mode, root, fork, pkgs, fs, unread, versions, mappings,
                   pending, placed, rewrite, disk, orig, passes, probeIn,
                   probeOut>>

\* One iteration of `for gxpath, gopath := range rewrite`, the range visiting
\* the keys in any order.
RewriteKey ==
    /\ pc = "keys"
    /\ \E k \in todo :
         /\ newblob' = ApplyKey(mode, newblob, k, rewrite[k])
         /\ todo' = todo \ {k}
    /\ UNCHANGED <<mode, root, fork, pc, err, envFault, pkgs, fs, unread,
                   versions, mappings, pending, placed, rewrite, disk, orig,
                   oldblob, passes, probeIn, probeOut>>

\* The rest of the callback: the fork substitution and the marker strip
\* (embed), and ioutil.WriteFile when the content changed.
FinishFile ==
    /\ pc = "keys"
    /\ todo = {}
    /\ LET final == Finish(mode, newblob, root, fork)
       IN  \E fault \in BOOLEAN :
             IF fault /\ final # oldblob
             THEN /\ Fatal("RewriteIOError", TRUE)
                  /\ newblob' = final
                  /\ UNCHANGED <<disk, passes>>
             ELSE /\ newblob' = final
                  /\ disk' = final
                  /\ passes' = passes + 1
                  /\ pc' = "done"
                  /\ UNCHANGED <<err, envFault>>
    /\ UNCHANGED <<mode, root, fork, pkgs, fs, unread, versions, mappings,
                   pending, placed, rewrite, orig, oldblob, todo, probeIn,
                   probeOut>>

Next ==
    \/ Install
    \/ InstallFail
    \/ ReadManifest
    \/ Relocate
    \/ ReadFile
    \/ RewriteKey
    \/ FinishFile

Spec == Init /\ [][Next]_vars

\* ------------------------------------------------- the rewriter on its own
\* The rewrite pass as a function of its inputs: a RewriteMap the relocation
\* loop can leave behind, the root and fork identities, and the content of one
\* source file.  The run starts at the walk; Rerun walks the tree once more
\* with the same map.

\* The number of hashes of f that declare the canonical path of hash h.
TallyOf(f, h) == Cardinality({g \in DOMAIN f : f[g].path = f[h].path})

\* The placements the relocation loop can give to the packages f.
PlacementsOf(md, f) ==
    {pl \in [DOMAIN f -> {"skip", "clash", "embed", "vendor"}] :
        \A h \in DOMAIN f :
            pl[h] \in {Placement(md, TallyOf(f, h), f[h].path, env) :
                          env \in ProbeEnvs}}

\* The map the relocation loop leaves behind once every hash of f was
\* visited and placed as pl says.
RECURSIVE PlannedFrom(_, _, _, _, _)
PlannedFrom(md, rootv, f, pl, h) ==
    IF h = 0 THEN EmptyMap
    ELSE LET rw   == PlannedFrom(md, rootv, f, pl, h - 1)
             path == f[h].path
         IN  CASE pl[h] = "skip"   -> rw
               [] pl[h] = "clash"  -> Put(rw, ClashKey(h), ClashRef(rootv, h))
               [] pl[h] = "embed"  -> Entries(rw, h, DirName,
                                              EmbedRef(rootv, path), {path})
               [] pl[h] = "vendor" -> Entries(rw, h, DirName, VendorRef(path), {})

PlannedMap(md, rootv, f, pl) == PlannedFrom(md, rootv, f, pl, Len(f))

\* The identities of the rewriter runs: a fork that is unrelated to the root,
\* and a fork that is the parent path of the root.
RwRoots == {<<"r">>, <<"f", SL, "r">>}
RwForks == {<<>>, <<"f">>}

\* The import paths a source file may mention: the hash path of a package
\* and of a package below it, the canonical paths and paths below them, the
\* root, paths below the root and a path that only starts like the root.
RefsOf(f, rootv) ==
    {HashKey(h, DirName) : h \in DOMAIN f}
        \cup {HashKey(h, DirName) \o <<SL, "s">> : h \in DOMAIN f}
        \cup RwPaths
        \cup {p \o <<SL, "s">> : p \in RwPaths}
        \cup {rootv, rootv \o <<SL, "s">>, rootv \o <<SL, "r">>, rootv \o <<"e">>}

\* The pieces of a source file: an import, a path outside quotes, an import
\* comment, an import comment followed by a string on the same line.
SnippetsOf(f, rootv) ==
    UNION {{Quoted(ref),
            ref,
            <<IMPORTC>> \o Quoted(ref),
            <<IMPORTC>> \o Quoted(ref) \o <<" ">> \o Quoted(<<"o">>)} :
           ref \in RefsOf(f, rootv)}

RECURSIVE ContentsOf(_, _)
ContentsOf(snips, n) ==
    IF n = 0 THEN {<<>>}
    ELSE LET shorter == ContentsOf(snips, n - 1)
         IN  shorter \cup {c \o <<NL>> \o x : c \in shorter \ {<<>>}, x \in snips}
                     \cup (IF n = 1 THEN snips ELSE {})

InitRewrite ==
    /\ mode \in {"simple", "embed"}
    /\ root \in (IF mode = "embed" THEN RwRoots ELSE {<<"r">>})
    /\ fork \in (IF mode = "embed" THEN RwForks ELSE {<<>>})
    /\ pkgs \in UNION {[1..k -> [man : {"ok"}, path : RwPaths]] : k \in 1..NumRwPkgs}
    /\ placed \in PlacementsOf(mode, pkgs)
    /\ rewrite = PlannedMap(mode, root, pkgs, placed)
    /\ pc = "walk"
    /\ err = ""
    /\ envFault = FALSE
    /\ fs = {}
    /\ unread = <<>>
    /\ versions = EmptyMap
    /\ mappings = [h \in DOMAIN pkgs |-> pkgs[h].path]
    /\ pending = {}
    /\ disk \in ContentsOf(SnippetsOf(pkgs, root), MaxSnips) \ {<<>>}
    /\ orig = disk
    /\ oldblob = <<>>
    /\ newblob = <<>>
    /\ todo = {}
    /\ passes = 0
    /\ probeIn = NoProbe
    /\ probeOut = "none"

\* The tool is run again over the tree it rewrote.
Rerun ==
    /\ pc = "done"
    /\ passes < 2
    /\ pc' = "walk"
    /\ UNCHANGED <<mode, root, fork, err, envFault, pkgs, fs, unread, versions,
                   mappings, pending, placed, rewrite, disk, orig, oldblob,
                   newblob, todo, passes, probeIn, probeOut>>

NextRewrite ==
    \/ ReadFile
    \/ RewriteKey
    \/ FinishFile
    \/ Rerun

SpecRewrite == InitRewrite /\ [][NextRewrite]_vars

\* ---------------------------------------------------- shouldEmbed on its own
InitProbe ==
    /\ mode = "embed"
    /\ root = <<"r">>
    /\ fork = <<>>
    /\ pkgs = <<>>
    /\ pc = "probe"
    /\ err = ""
    /\ envFault = FALSE
    /\ fs = {}
    /\ unread = <<>>
    /\ versions = EmptyMap
    /\ mappings = EmptyMap
    /\ pending = {}
    /\ placed = EmptyMap
    /\ rewrite = EmptyMap
    /\ disk = <<>>
    /\ orig = <<>>
    /\ oldblob = <<>>
    /\ newblob = <<>>
    /\ todo = {}
    /\ passes = 0
    /\ probeIn \in [path : CanonicalPaths \cup RwPaths, httpErr : BOOLEAN,
                    status : HttpStatuses, getOK : BOOLEAN, statErr : BOOLEAN]
    /\ probeOut = "none"

\* shouldEmbed(workspace, path) is called and returns.
ProbeCall ==
    /\ pc = "probe"
    /\ probeOut' = IF shouldEmbed(probeIn.path, probeIn) THEN "embed" ELSE "vendor"
    /\ pc' = "done"
    /\ UNCHANGED <<mode, root, fork, err, envFault, pkgs, fs, unread, versions,
                   mappings, pending, placed, rewrite, disk, orig, oldblob,
                   newblob, todo, passes, probeIn>>

NextProbe == ProbeCall

SpecProbe == InitProbe /\ [][NextProbe]_vars

\* ================================================================ claims
\* Helpers of the claims.
Range(sq) == {sq[i] : i \in DOMAIN sq}

\* Every installed package declares a canonical path.
AllDeclared == \A h \in DOMAIN pkgs : pkgs[h].man = "ok"

\* No two hashes declare the same canonical path.
NoCollision ==
    \A g, h \in DOMAIN pkgs :
        (g # h /\ pkgs[g].man = "ok" /\ pkgs[h].man = "ok")
            => pkgs[g].path # pkgs[h].path

\* Hash h is one of several hashes that declare the same canonical path.
InCollision(h) ==
    /\ pkgs[h].man = "ok"
    /\ \E g \in DOMAIN pkgs : g # h /\ pkgs[g].man = "ok" /\ pkgs[g].path = pkgs[h].path

\* gx install succeeded: the hash directories are on disk.
HasInstalled == pc # "install" /\ err # "InstallerFailure"

\* The run is over: it completed, or it stopped on a fatal error.
RunOver == pc \in {"done", "failed"}

\* Where the content of hash h is in the tree.
ContentAt(h) == {q \in fs : q[Len(q)] = CodeOf(h)}

\* The planned destination of hash h: vendor/<path> or gxlibs/<path>.
PlannedDest(h) ==
    (IF placed[h] = "embed" THEN GXLIBS ELSE VENDOR) \o Segs(pkgs[h].path)

\* The package of hash h as it lies below dir.
PackageBelow(h, dir) ==
    {dir, Append(dir, DirName), Append(Append(dir, DirName), CodeOf(h)),
     Append(Append(dir, DirName), PKGJSON)}

\* C1: for a package set without collisions and without an I/O failure, a
\* run ends completed, with no hash directory left and the content of every
\* package exactly once in the tree, at its planned destination; whatever the
\* order of the relocation loop, nested canonical paths included.
C1_AllRelocated ==
    (AllDeclared /\ NoCollision /\ RunOver /\ ~envFault)
        => /\ pc = "done"
           /\ \A h \in DOMAIN pkgs :
                /\ HashDir(h) \notin fs
                /\ h \in DOMAIN placed
                /\ ContentAt(h) = {Append(PlannedDest(h), CodeOf(h))}

C6_BadManifestFails ==
    \A h \in DOMAIN pkgs :
        (pkgs[h].man \in BadManifests /\ HasInstalled /\ h \notin Range(unread))
            => /\ pc = "failed"
               /\ pkgs[h].man \in {"nodir", "nofile"}
                      => err \in {"ManifestMissing", "Panic"}
               /\ pkgs[h].man \in {"unparsable", "nofield"}
                      => err = "ManifestMalformed"
               /\ h \notin DOMAIN mappings
               /\ fs = Installed(pkgs)

\* C9: the stages are ordered and fail-fast.  A step that changes the tree
\* after the installer is taken with every manifest read and tallied; a step
\* that changes the source file is taken with every hash visited by the
\* relocation loop; a failed run changes nothing any more, its source file is
\* untouched, and a failure of the installer or of a manifest leaves the tree
\* as installed.
TallyComplete ==
    /\ unread = <<>>
    /\ DOMAIN mappings = DOMAIN pkgs
    /\ \A h \in DOMAIN pkgs :
         versions[mappings[h]]
             = Cardinality({g \in DOMAIN pkgs : mappings[g] = mappings[h]})

C9_Step ==
    /\ (pc # "install" /\ fs' # fs) => TallyComplete
    /\ (rewrite' # rewrite) => TallyComplete
    /\ (disk' # disk) => (pending = {} /\ DOMAIN placed = DOMAIN pkgs
                             /\ TallyComplete)
    /\ (pc = "failed") => UNCHANGED vars
    /\ (pc' = "failed") =>
         /\ err' # ""
         /\ disk' = orig
         /\ err' = "InstallerFailure" => fs' = {}
         /\ err' \in {"ManifestMissing", "ManifestMalformed", "Panic", "ListError"}
                => (fs' = Installed(pkgs) /\ placed' = EmptyMap)
    /\ (err' # "") => pc' = "failed"

C9_StagesOrdered == [][C9_Step]_vars

\* C9, witness: a run failed in the relocation loop after it had relocated a
\* package, and the source file is as it was.
C9_Witness ==
    /\ pc = "failed"
    /\ err = "RelocationIOError"
    /\ placed # EmptyMap
    /\ fs # Installed(pkgs)
    /\ disk = orig

\* The loop over rewrite has visited every key in the first walk.
KeysApplied == pc = "keys" /\ todo = {} /\ passes = 0

\* C3: the rewrite pass is idempotent: a second walk with the same map
\* leaves the file as the first walk wrote it.
C3_Idempotent ==
    (pc = "done" /\ passes = 2) => disk = oldblob

\* The fork substitution as the claim describes it: one pass over the
\* content, in which a quote followed by the root and then by "/" or by a
\* quote has the root replaced by the fork.
RECURSIVE IdealFork(_, _, _)
IdealFork(blob, rootv, forkv) ==
    IF blob = <<>> THEN <<>>
    ELSE IF /\ blob[1] = Q
            /\ HasPrefix(Tail(blob), rootv)
            /\ Len(blob) >= Len(rootv) + 2
            /\ blob[Len(rootv) + 2] \in {SL, Q}
         THEN <<Q>> \o forkv \o <<blob[Len(rootv) + 2]>>
                  \o IdealFork(SubSeq(blob, Len(rootv) + 3, Len(blob)), rootv, forkv)
         ELSE <<blob[1]>> \o IdealFork(Tail(blob), rootv, forkv)

\* C4: with a fork identity, every quoted "<root>/sub" becomes "<fork>/sub",
\* every quoted "<root>" becomes "<fork>", and nothing else changes (a path
\* that only starts like the root stays); stated for the files without an
\* import comment, where the marker strip that follows changes nothing.
C4_Step ==
    (pc = "keys" /\ pc' = "done" /\ mode = "embed" /\ fork # <<>>
        /\ IMPORTC \notin Range(newblob))
        => disk' = IdealFork(newblob, root, fork)

C4_ForkExact == [][C4_Step]_vars

\* C5, as claimed: on GitHub the result is Embed on a 200-class response
\* and on a transport failure, InlineVendor on any other response; off
\* GitHub it is InlineVendor exactly when `go get` succeeded and no
\* package.json is found.
OnGitHub == HasPrefix(probeIn.path, <<GITHUB, SL>>)

C5_FailSafe2xx ==
    probeOut # "none" =>
        IF OnGitHub
        THEN probeOut = "embed" <=> (probeIn.httpErr \/ probeIn.status \in 200..299)
        ELSE probeOut = "vendor" <=> (probeIn.getOK /\ probeIn.statErr)

\* C5, amended: on GitHub the result is Embed on a response with status 200
\* and on a transport failure, InlineVendor on any other response (another
\* 2xx status included); off GitHub as claimed.
C5_FailSafe200 ==
    probeOut # "none" =>
        IF OnGitHub
        THEN probeOut = "embed" <=> (probeIn.httpErr \/ probeIn.status = 200)
        ELSE probeOut = "vendor" <=> (probeIn.getOK /\ probeIn.statErr)

\* C5, witness: the probe of a GitHub path failed in transport and the
\* package is embedded.
C5_Witness ==
    /\ probeOut = "embed"
    /\ OnGitHub
    /\ probeIn.httpErr

\* An import comment as the claim describes it: the opener, a quote, a path
\* (no quote, no newline) and the closing quote.  StripExact removes these
\* and nothing else.
FirstQuote(s) == CHOOSE j \in 3..Len(s) : s[j] = Q /\ \A k \in 3..(j - 1) : s[k] # Q

RECURSIVE StripExact(_)
StripExact(s) ==
    IF Len(s) = 0 THEN s
    ELSE IF /\ Len(s) >= 3 /\ s[1] = IMPORTC /\ s[2] = Q
            /\ \E j \in 3..(LineEnd(s, 1) - 1) : s[j] = Q
         THEN StripExact(SubSeq(s, FirstQuote(s) + 1, Len(s)))
         ELSE <<s[1]>> \o StripExact(Tail(s))

\* C7: the file the rewriter leaves has every import comment removed, and
\* only the import comments.
C7_Step ==
    (pc = "keys" /\ pc' = "done")
        => disk' = StripExact(IF mode = "embed" THEN ForkSubst(newblob, root, fork)
                              ELSE newblob)

C7_OnlyMarkersStripped == [][C7_Step]_vars

\* The keys of rw applied one after the other, in one fixed order.
RECURSIVE ApplyInOrder(_, _, _, _)
ApplyInOrder(md, blob, rw, keys) ==
    IF keys = {} THEN blob
    ELSE LET k == CHOOSE x \in keys : TRUE
         IN  ApplyInOrder(md, ApplyKey(md, blob, k, rw[k]), rw, keys \ {k})

\* All keys of rw substituted in one pass over the pristine content: at each
\* position the longest key that matches there is replaced, and the scan goes
\* on behind the match.
Pattern(md, k) == IF md = "embed" THEN <<Q>> \o k ELSE k

RECURSIVE OnePass(_, _, _)
OnePass(md, blob, rw) ==
    IF blob = <<>> THEN <<>>
    ELSE LET hits == {k \in DOMAIN rw : HasPrefix(blob, Pattern(md, k))}
             k    == CHOOSE x \in hits : \A y \in hits : Len(y) <= Len(x)
         IN  IF hits = {} THEN <<blob[1]>> \o OnePass(md, Tail(blob), rw)
             ELSE Pattern(md, rw[k])
                      \o OnePass(md, SubSeq(blob, Len(Pattern(md, k)) + 1, Len(blob)), rw)

\* C8: what the loop over rewrite produces does not depend on the order of
\* the keys, and is the content with all keys substituted in one pass.
C8_OrderIndependent ==
    KeysApplied =>
        /\ newblob = ApplyInOrder(mode, oldblob, rewrite, DOMAIN rewrite)
        /\ newblob = OnePass(mode, oldblob, rewrite)

\* A file that is one quoted reference, and the reference.
IsQuotedRef(b) ==
    /\ Len(b) >= 2
    /\ b[1] = Q
    /\ b[Len(b)] = Q
    /\ \A i \in 2..(Len(b) - 1) : b[i] \notin {Q, NL, IMPORTC}
RefIn(b) == SubSeq(b, 2, Len(b) - 1)

\* The reference is a key of rewrite, or a path below one.
Related(ref) ==
    \E k \in DOMAIN rewrite : ref = k \/ HasPrefix(ref, k \o <<SL>>)

\* C10: the loop over rewrite leaves alone a quoted reference that is no key
\* and no path below a key, and any text outside quotes.
C10_UnrelatedUntouched ==
    KeysApplied =>
        /\ (IsQuotedRef(oldblob) /\ ~Related(RefIn(oldblob))) => newblob = oldblob
        /\ (Q \notin Range(oldblob)) => newblob = oldblob

====
